---- MODULE Spec2Model ----
(***************************************************************************)
(* Model of the two recording tools of the calibration-script repository: *)
(*   - GatewayCalibrationTool     ("point" tool,  src/unnamed/part_000)    *)
(*   - FingerprintCollectionTool  ("survey" tool,                          *)
(*                          src/app/tools/fingerprint-collection-tool.js)  *)
(* A session (run) prompts the operator, arms a 60 s window during which   *)
(* handleMessage buffers RSSI samples, reduces them when the timer fires   *)
(* and merges one row into a workbook (writeToExcel).                      *)
(*                                                                         *)
(* Numbers.  Every JS number that reaches a cell is kept in hundredths     *)
(* (2.5 is 250), RSSI samples are integers (dBm).  A JS number is a       *)
(* double, whose significand has 53 bits: the model keeps SignificandBits  *)
(* of them, so that a sum is rounded as the double is (to nearest, ties to *)
(* even) once it needs more.  A mean is the rational sum/count;            *)
(* Math.round(avg * 100) / 100 is Round2(sum, count).                      *)
(* Strings are TLA+ strings, processed character by character.             *)
(***************************************************************************)
EXTENDS Integers, Sequences, FiniteSets, TLC

(***************************************************************************)
(* Bounds of the model.                                                    *)
(***************************************************************************)
\* most samples one window buffers (handleMessage is cut off above it)
MaxSamples == 2
\* most recordMeasurement cycles of one session
MaxCycles == 2
\* most samples one window of a point session buffers (PointSpec)
MaxPointSamples == 10
\* bits of the significand of a number (a double has 53)
SignificandBits == 20
\* most samples one window buffers in OrderSpec
MaxOrderSamples == 3

(***************************************************************************)
(* JavaScript string primitives.                                           *)
(***************************************************************************)
LowerLetters == "abcdefghijklmnopqrstuvwxyz"
UpperLetters == "ABCDEFGHIJKLMNOPQRSTUVWXYZ"
Digits == "0123456789"
\* the characters the model uses, in UTF-16 code unit order
CodeOrder == " ()-.0123456789:" \o UpperLetters \o LowerLetters

CharAt(s, i) == SubSeq(s, i, i)

\* position of the one-character string c in s, 0 when absent
RECURSIVE IndexFrom(_, _, _)
IndexFrom(c, s, i) ==
  IF i > Len(s) THEN 0
  ELSE IF CharAt(s, i) = c THEN i
  ELSE IndexFrom(c, s, i + 1)

IndexOf(c, s) == IndexFrom(c, s, 1)

CharSet == {CharAt(CodeOrder, i) : i \in 1..Len(CodeOrder)}

\* per character: code unit rank, upper-case and lower-case form
CodeOf == [c \in CharSet |-> IndexOf(c, CodeOrder)]

UpperOf ==
  [c \in CharSet |->
     IF IndexOf(c, LowerLetters) > 0
     THEN CharAt(UpperLetters, IndexOf(c, LowerLetters))
     ELSE c]

LowerOf ==
  [c \in CharSet |->
     IF IndexOf(c, UpperLetters) > 0
     THEN CharAt(LowerLetters, IndexOf(c, UpperLetters))
     ELSE c]

UpperChar(c) == UpperOf[c]

LowerChar(c) == LowerOf[c]

RECURSIVE ToUpperCase(_)
ToUpperCase(s) ==
  IF s = "" THEN "" ELSE UpperChar(CharAt(s, 1)) \o ToUpperCase(Tail(s))

RECURSIVE ToLowerCase(_)
ToLowerCase(s) ==
  IF s = "" THEN "" ELSE LowerChar(CharAt(s, 1)) \o ToLowerCase(Tail(s))

RECURSIVE TrimStart(_)
TrimStart(s) ==
  IF s # "" /\ CharAt(s, 1) = " " THEN TrimStart(Tail(s)) ELSE s

RECURSIVE TrimEnd(_)
TrimEnd(s) ==
  IF s # "" /\ CharAt(s, Len(s)) = " "
  THEN TrimEnd(SubSeq(s, 1, Len(s) - 1))
  ELSE s

Trim(s) == TrimEnd(TrimStart(s))

\* String.prototype.includes
Includes(s, sub) ==
  \E i \in 1..(Len(s) - Len(sub) + 1) : SubSeq(s, i, i + Len(sub) - 1) = sub

\* a < b in code unit order, the order of Array.prototype.sort() on strings
RECURSIVE StrLess(_, _)
StrLess(a, b) ==
  IF b = "" THEN FALSE
  ELSE IF a = "" THEN TRUE
  ELSE IF CharAt(a, 1) = CharAt(b, 1) THEN StrLess(Tail(a), Tail(b))
  ELSE CodeOf[CharAt(a, 1)] < CodeOf[CharAt(b, 1)]

\* variant of SortedSeq that sorts in descending order (C3 depends on the
\* ascending sort of the cycle's gateways)
RECURSIVE SortedSeq_Descending(_)
SortedSeq_Descending(S) ==
  IF S = {} THEN << >>
  ELSE LET m == CHOOSE x \in S : \A y \in S \ {x} : StrLess(y, x)
       IN <<m>> \o SortedSeq_Descending(S \ {m})

\* Array.from(set).sort()
RECURSIVE SortedSeq(_)
SortedSeq(S) ==
  IF S = {} THEN << >>
  ELSE LET m == CHOOSE x \in S : \A y \in S \ {x} : StrLess(x, y)
       IN <<m>> \o SortedSeq(S \ {m})

(***************************************************************************)
(* parseFloat.  The result is [nan, v] with v in hundredths.  Inputs carry *)
(* at most two fraction digits and no exponent.                            *)
(***************************************************************************)
IsDigit(c) == IndexOf(c, Digits) > 0

\* number of leading digits of s
RECURSIVE DigitRun(_)
DigitRun(s) ==
  IF s # "" /\ IsDigit(CharAt(s, 1)) THEN 1 + DigitRun(Tail(s)) ELSE 0

\* value of a string of digits
RECURSIVE DigitsValue(_)
DigitsValue(s) ==
  IF s = "" THEN 0
  ELSE 10 * DigitsValue(SubSeq(s, 1, Len(s) - 1))
       + (IndexOf(CharAt(s, Len(s)), Digits) - 1)

\* 2^n
RECURSIVE Pow2(_)
Pow2(n) == IF n = 0 THEN 1 ELSE 2 * Pow2(n - 1)

\* the smallest number that no longer has every integer below it and itself
\* as neighbours: from here on a number is a multiple of its unit
Exact == Pow2(SignificandBits)

\* the distance between the numbers around magnitude a
RECURSIVE UnitOf(_)
UnitOf(a) == IF a < Exact THEN 1 ELSE 2 * UnitOf(a \div 2)

\* the number an exact integer result is rounded to: the nearest multiple of
\* the unit, the even one on a tie
ToNumber(x) ==
  LET a == IF x < 0 THEN 0 - x ELSE x
      u == UnitOf(a)
      q == a \div u
      r == a % u
      m == IF 2 * r < u THEN q
           ELSE IF 2 * r > u THEN q + 1
           ELSE IF q % 2 = 0 THEN q ELSE q + 1
  IN IF x < 0 THEN 0 - m * u ELSE m * u

\* a + b on numbers
Plus(a, b) == ToNumber(a + b)

NaN == [nan |-> TRUE, v |-> 0]

ParseFloat(input) ==
  LET s0 == TrimStart(input)
      neg == s0 # "" /\ CharAt(s0, 1) = "-"
      signed == s0 # "" /\ (CharAt(s0, 1) = "-" \/ CharAt(s0, 1) = "+")
      s1 == IF signed THEN Tail(s0) ELSE s0
      ni == DigitRun(s1)
      s2 == SubSeq(s1, ni + 1, Len(s1))
      dot == s2 # "" /\ CharAt(s2, 1) = "."
      s3 == IF dot THEN Tail(s2) ELSE ""
      nf == DigitRun(s3)
      frac == SubSeq(s3, 1, IF nf > 2 THEN 2 ELSE nf)
      fracH == IF Len(frac) = 1 THEN 10 * DigitsValue(frac) ELSE DigitsValue(frac)
      mag == 100 * DigitsValue(SubSeq(s1, 1, ni)) + fracH
  IN IF ni = 0 /\ nf = 0 THEN NaN
     ELSE [nan |-> FALSE, v |-> IF neg THEN 0 - mag ELSE mag]

\* variant of Round2 that rounds up (C11 depends on rounding to nearest)
Round2_Up(sum, count) == 0 - ((0 - 100 * sum) \div count)

\* Math.round(sum / count * 100), i.e. the rounded mean in hundredths
\* (Math.round rounds a half towards +Infinity)
Round2(sum, count) == (200 * sum + count) \div (2 * count)

\* the text SheetJS shows for a number under the General format
FormatNumber(h) ==
  LET mag == IF h < 0 THEN 0 - h ELSE h
      ip == mag \div 100
      fp == mag % 100
      fr == IF fp = 0 THEN ""
            ELSE IF fp % 10 = 0 THEN "." \o ToString(fp \div 10)
            ELSE IF fp < 10 THEN ".0" \o ToString(fp)
            ELSE "." \o ToString(fp)
  IN (IF h < 0 THEN "-" ELSE "") \o ToString(ip) \o fr

(***************************************************************************)
(* Cells, sheets and the store file.  A cell is a number (hundredths) or a *)
(* string; '' is the empty string cell.  A sheet is the array of arrays it *)
(* was built from (aoa_to_sheet); a workbook is its sheets in SheetNames   *)
(* order.  The store is the file at the output path.                       *)
(***************************************************************************)
Num(h) == [t |-> "n", n |-> h, s |-> ""]
Text(str) == [t |-> "s", n |-> 0, s |-> str]
Empty == Text("")

Max2(a, b) == IF a > b THEN a ELSE b
Min2(a, b) == IF a < b THEN a ELSE b

\* number of columns of the sheet's range ('!ref'), 0 for a sheet without cells
RECURSIVE Width(_)
Width(rows) ==
  IF rows = << >> THEN 0 ELSE Max2(Len(Head(rows)), Width(Tail(rows)))

PadRow(row, w) == row \o [i \in 1..(w - Len(row)) |-> Empty]

\* Array.prototype.includes on a row of cell values
RowIncludes(row, cell) == \E i \in 1..Len(row) : row[i] = cell

\* Array.prototype.splice(start, 0, ...items), start 0-based
Splice(seq, start, items) ==
  SubSeq(seq, 1, start) \o items \o SubSeq(seq, start + 1, Len(seq))

SheetNames(sheets) == [i \in 1..Len(sheets) |-> sheets[i].name]

HasSheet(sheets, name) == \E i \in 1..Len(sheets) : sheets[i].name = name

SheetRows(sheets, name) ==
  sheets[CHOOSE i \in 1..Len(sheets) : sheets[i].name = name].rows

\* workbook.SheetNames.find(name => name.toLowerCase().includes(kw) ||
\*   name.toLowerCase().includes('data')) || workbook.SheetNames[0]
\* ("" stands for undefined: a workbook without sheets)
FindSheetName(sheets, kw) ==
  LET hit(i) == \/ Includes(ToLowerCase(sheets[i].name), kw)
                \/ Includes(ToLowerCase(sheets[i].name), "data")
  IN IF \E i \in 1..Len(sheets) : hit(i)
     THEN sheets[CHOOSE i \in 1..Len(sheets) :
                   hit(i) /\ \A j \in 1..(i - 1) : ~hit(j)].name
     ELSE IF Len(sheets) > 0 THEN sheets[1].name
     ELSE ""

\* workbook.Sheets[name] = rows, the name appended to SheetNames when new
PutSheet(sheets, name, rows) ==
  IF HasSheet(sheets, name)
  THEN [i \in 1..Len(sheets) |->
          IF sheets[i].name = name THEN [name |-> name, rows |-> rows]
          ELSE sheets[i]]
  ELSE Append(sheets, [name |-> name, rows |-> rows])

AbsentStore == [exists |-> FALSE, parseable |-> TRUE, sheets |-> << >>]
CorruptStore == [exists |-> TRUE, parseable |-> FALSE, sheets |-> << >>]
Book(sheets) == [exists |-> TRUE, parseable |-> TRUE, sheets |-> sheets]

(***************************************************************************)
(* GatewayCalibrationTool.writeToExcel                                     *)
(***************************************************************************)
PointSheetName == "Calibration Data"

PointHeader ==
  <<Text("Gateway MAC"), Text("Distance (m)"), Text("RSSI (dBm)"),
    Text("Notes"), Text("Timestamp")>>

\* format_cell under raw: false: a number cell yields its formatted text
FormatCell(cell) == IF cell.t = "n" THEN Text(FormatNumber(cell.n)) ELSE cell

\* XLSX.utils.sheet_to_json(worksheet, {header: 1, defval: '', raw: false})
SheetToJson(rows) ==
  IF Width(rows) = 0 THEN << >>
  ELSE [i \in 1..Len(rows) |->
          [j \in 1..Width(rows) |-> FormatCell(PadRow(rows[i], Width(rows))[j])]]

\* the rows the point tool holds after reading the existing file
PointLoadExisting(sheets) ==
  LET name == FindSheetName(sheets, "calibration")
      json == IF name = "" THEN << >> ELSE SheetToJson(SheetRows(sheets, name))
      data == IF Len(json) = 0 THEN <<PointHeader>> ELSE json
  IN IF ~RowIncludes(data[1], Text("Gateway MAC"))
     THEN <<PointHeader>> \o data
     ELSE data

PointLoad(store) ==
  IF store.exists THEN PointLoadExisting(store.sheets) ELSE <<PointHeader>>

PointNewRow(gatewayMac, distance, sum, count, stamp) ==
  <<Text(gatewayMac), Num(distance), Num(Round2(sum, count)), Empty, Text(stamp)>>

\* XLSX.readFile throws on a file it cannot parse; nothing catches it here
PointWriteThrows(store) == store.exists /\ ~store.parseable

\* the file after writeToExcel returns normally
PointWriteToExcel(store, gatewayMac, distance, sum, count, stamp) ==
  Book(PutSheet(IF store.exists THEN store.sheets ELSE << >>,
                PointSheetName,
                Append(PointLoad(store),
                       PointNewRow(gatewayMac, distance, sum, count, stamp))))

(***************************************************************************)
(* FingerprintCollectionTool.writeToExcel                                  *)
(***************************************************************************)
SurveySheetName == "Fingerprint Data"

BaseCols == <<Text("Location ID"), Text("X (m)"), Text("Y (m)"), Text("Z (m)")>>

RequiredStatsCols ==
  <<Text("Min RSSI (dBm)"), Text("Max RSSI (dBm)"), Text("Total Samples")>>

SurveyHeader == BaseCols \o RequiredStatsCols

\* the loop over decode_range(worksheet['!ref'] || 'A1'): every cell of the
\* range, '' where the sheet has none; a sheet without cells reads as [['']]
ReadRange(rows) ==
  IF Width(rows) = 0 THEN <<<<Empty>>>>
  ELSE [i \in 1..Len(rows) |-> PadRow(rows[i], Width(rows))]

\* index (0-based) of the first TRUE of hits, -1 when none; hits[i] tells
\* whether the i-th element satisfies the test of the loop or findIndex
FindIndex(hits) ==
  IF \E i \in 1..Len(hits) : hits[i]
  THEN (CHOOSE i \in 1..Len(hits) :
          hits[i] /\ \A j \in 1..(i - 1) : ~hits[j]) - 1
  ELSE -1

\* headers and data after the statistics columns were ensured; headers is
\* data[0] itself (one array), so the splice on headers shows in data
EnsureStatsCols(data) ==
  LET headers == data[1]
      isBase(h) == RowIncludes(BaseCols, h)
      isOther(h) == ~RowIncludes(BaseCols, h) /\ ~RowIncludes(RequiredStatsCols, h)
      firstBase == FindIndex([i \in 1..Len(headers) |-> isBase(headers[i])])
      statsColStartIndex == IF firstBase = -1 THEN -1 ELSE firstBase + Len(BaseCols)
      found == FindIndex([i \in 1..Len(headers) |-> isOther(headers[i])])
      baseEndIndex == IF found = -1 THEN Len(headers) ELSE found
  IN IF statsColStartIndex = -1 \/ ~RowIncludes(headers, Text("Min RSSI (dBm)"))
     THEN [i \in 1..Len(data) |->
             IF i = 1 THEN Splice(headers, baseEndIndex, RequiredStatsCols)
             ELSE Splice(data[i], Min2(Len(BaseCols), Len(data[i])),
                         <<Empty, Empty, Empty>>)]
     ELSE data

\* the try block fails: the file does not parse, or it has no sheet at all
\* (worksheet is undefined and worksheet['!ref'] throws)
SurveyReadFails(store) == ~store.parseable \/ Len(store.sheets) = 0

\* data after the file was read (or not): [data, sheets, warned]
SurveyLoad(store) ==
  IF store.exists
  THEN IF SurveyReadFails(store)
       THEN [data |-> <<BaseCols>>, sheets |-> << >>, warned |-> TRUE]
       ELSE LET data == ReadRange(SheetRows(store.sheets,
                                   FindSheetName(store.sheets, "fingerprint")))
            IN [data |-> IF Len(data) = 0 \/ Len(data[1]) = 0
                         THEN <<SurveyHeader>>
                         ELSE EnsureStatsCols(data),
                sheets |-> store.sheets, warned |-> FALSE]
  ELSE [data |-> <<SurveyHeader>>, sheets |-> << >>, warned |-> FALSE]

\* gatewayMacs.forEach(mac => { if (!headers.includes(mac)) headers.push(mac) })
RECURSIVE PushMissing(_, _)
PushMissing(headers, macs) ==
  IF macs = << >> THEN headers
  ELSE PushMissing(IF RowIncludes(headers, Text(Head(macs))) THEN headers
                   ELSE Append(headers, Text(Head(macs))),
                   Tail(macs))

\* rssiReadings[mac] || ''
ReadingCell(rssiReadings, mac) ==
  IF mac \in DOMAIN rssiReadings /\ rssiReadings[mac] # 0
  THEN Num(rssiReadings[mac])
  ELSE Empty

SurveyNewRow(macs, locationId, coordinates, rssiReadings, overallMin, overallMax, totalSamples) ==
  <<Text(locationId), Num(coordinates.x), Num(coordinates.y), Num(coordinates.z),
    Num(100 * overallMin), Num(100 * overallMax), Num(100 * totalSamples)>>
  \o [i \in 1..Len(macs) |-> ReadingCell(rssiReadings, macs[i])]

\* the rows written to the sheet: header with the cycle's gateways ensured,
\* the former rows, the new row
SurveyRows(data, macs, newRow) ==
  Append([i \in 1..Len(data) |->
            IF i = 1 THEN PushMissing(data[1], macs) ELSE data[i]],
         newRow)

\* the file after writeToExcel returns normally
SurveyWriteToExcel(store, gatewayMacs, locationId, coordinates, rssiReadings, overallMin, overallMax, totalSamples) ==
  LET loaded == SurveyLoad(store)
      macs == SortedSeq(gatewayMacs)
  IN Book(PutSheet(loaded.sheets, SurveySheetName,
                   SurveyRows(loaded.data, macs,
                              SurveyNewRow(macs, locationId, coordinates,
                                           rssiReadings, overallMin, overallMax,
                                           totalSamples))))

(***************************************************************************)
(* Inputs: operator answers, telemetry messages, stores found on disk.     *)
(***************************************************************************)
ContinueAnswers == {"y", "Y", "n"}
MacInputs == {"  ", " x1 ", "X2"}
DistanceInputs == {"2.5", "-5", "abc", "0"}
LocationInputs == {" ", " p1 "}
XInputs == {"1", "x"}
YInputs == {"2", ""}
ZInputs == {"", "0", "z"}

\* one entry of payload.data
NullItem == [kind |-> "null", rssi |-> 0]
NumberItem(r) == [kind |-> "number", rssi |-> r]
StringItem == [kind |-> "string", rssi |-> 0]
MissingItem == [kind |-> "missing", rssi |-> 0]

\* a message by what JSON.parse and the shape tests make of it
BadMessage(shape) == [shape |-> shape, mac |-> "", items |-> << >>]
GoodMessage(mac, items) == [shape |-> "ok", mac |-> mac, items |-> items]

BadShapes ==
  {"invalid_json", "json_null", "no_device_info", "no_mac", "mac_not_string",
   "data_not_array"}

MessageMacs == {"x1", "X2"}

ItemLists ==
  {<< >>, <<NumberItem(-5)>>, <<NumberItem(5)>>,
   <<NumberItem(5), NumberItem(-5)>>,
   <<StringItem, MissingItem, NumberItem(5)>>,
   <<NumberItem(-5), NullItem, NumberItem(5)>>}

Messages ==
  {BadMessage(sh) : sh \in BadShapes}
  \cup {GoodMessage(mac, items) : mac \in MessageMacs, items \in ItemLists}

PointStores ==
  {AbsentStore, CorruptStore,
   Book(<<[name |-> PointSheetName,
           rows |-> <<PointHeader,
                      <<Text("X9"), Num(100), Num(-4050), Empty, Text("T0")>>>>]>>),
   Book(<<[name |-> "Sheet1",
           rows |-> <<<<Text("X9"), Num(100), Num(-4050)>>>>]>>),
   Book(<<[name |-> "Sheet1", rows |-> << >>]>>),
   Book(<<[name |-> "Site Data",
           rows |-> <<PointHeader,
                      <<Text("X9"), Num(100), Num(-4050), Empty, Text("T0")>>>>]>>)}

SurveyStores ==
  {AbsentStore, CorruptStore,
   Book(<<[name |-> SurveySheetName,
           rows |-> <<SurveyHeader \o <<Text("X0")>>,
                      <<Text("p0"), Num(0), Num(0), Num(0), Num(-8000), Num(-6000),
                        Num(200), Num(-7000)>>>>]>>),
   Book(<<[name |-> SurveySheetName,
           rows |-> <<BaseCols \o <<Text("X0")>>,
                      <<Text("p0"), Num(0), Num(0), Num(0), Num(-7000)>>>>]>>),
   Book(<<[name |-> "Sheet1",
           rows |-> <<<<Text("p0"), Num(0), Num(0), Num(0), Num(-7000)>>>>]>>),
   Book(<<[name |-> "Sheet1", rows |-> << >>]>>),
   Book(<<[name |-> "Site Data",
           rows |-> <<SurveyHeader \o <<Text("X0")>>,
                      <<Text("p0"), Num(0), Num(0), Num(0), Num(-8000), Num(-6000),
                        Num(200), Num(-7000)>>>>]>>)}

(***************************************************************************)
(* Reduction of the buffered samples.                                      *)
(***************************************************************************)
\* rssiValues.reduce((a, b) => a + b, 0)
RECURSIVE Reduce(_, _)
Reduce(acc, values) ==
  IF values = << >> THEN acc
  ELSE Reduce(Plus(acc, Head(values)), Tail(values))

Sum(values) == Reduce(0, values)

\* variant of MinOf that takes the first value (C10 depends on the minimum)
MinOf_First(values) == Head(values)

\* Math.min(...rssiValues), values not empty
RECURSIVE MinOf(_)
MinOf(values) ==
  IF Len(values) = 1 THEN Head(values)
  ELSE Min2(Head(values), MinOf(Tail(values)))

\* Math.max(...rssiValues), values not empty
RECURSIVE MaxOf(_)
MaxOf(values) ==
  IF Len(values) = 1 THEN Head(values)
  ELSE Max2(Head(values), MaxOf(Tail(values)))

\* samples, sum (avg = sum / samples), min and max of one gateway's values
StatsOf(mac, values) ==
  [mac |-> mac, samples |-> Len(values), sum |-> Sum(values),
   min |-> MinOf(values), max |-> MaxOf(values)]

\* allRssiValues.push(...rssiValues) over the Map's entries
RECURSIVE Flatten(_)
Flatten(entries) ==
  IF entries = << >> THEN << >>
  ELSE Head(entries).values \o Flatten(Tail(entries))

\* the numeric entries payload.data.forEach reaches: a null entry throws on
\* item.rssi and ends the loop, non-numeric rssi is skipped
RECURSIVE NumericItems(_)
NumericItems(items) ==
  IF items = << >> \/ Head(items).kind = "null" THEN << >>
  ELSE IF Head(items).kind = "number"
       THEN <<Head(items).rssi>> \o NumericItems(Tail(items))
       ELSE NumericItems(Tail(items))

(***************************************************************************)
(* State.                                                                  *)
(***************************************************************************)
VARIABLES
  tool,                \* "point" | "survey": the tool this process runs
  pc,                  \* where run() / recordMeasurement() is waiting
  cycle,               \* recordMeasurement calls started so far
  store,               \* the file at the output path
  isRecording,         \* this.isRecording
  recordings,          \* this.recordings: point, array of {gatewayMac, rssi};
                       \* survey, Map in insertion order of [mac, values]
  gatewayMacs,         \* this.gatewayMacs (survey)
  currentGatewayMac,   \* << >> is null (point)
  currentDistance,     \* << >> is null (point)
  currentLocationId,   \* << >> is null (survey)
  currentCoordinates,  \* << >> is null (survey)
  input,               \* answers recordMeasurement holds in its local variables
  report,              \* what the last recordMeasurement computed and printed
  lastOp,              \* the handler that ran last
  merged,              \* history: this.gatewayMacs at each survey writeToExcel
  others               \* a recordMeasurement call made by another user of the
                       \* exported class than run(): "none" | "after" (it waits
                       \* on its timer, set after the timer of run()'s call) |
                       \* "due" (it waits on the oldest timer) | "returned"

vars ==
  <<tool, pc, cycle, store, isRecording, recordings, gatewayMacs,
    currentGatewayMac, currentDistance, currentLocationId, currentCoordinates,
    input, report, lastOp, merged, others>>

context == <<currentGatewayMac, currentDistance, currentLocationId, currentCoordinates>>
buffer == <<recordings, gatewayMacs>>

NoInput == [gatewayMac |-> "", locationId |-> "", x |-> 0, y |-> 0]

NoOverall == [min |-> 0, max |-> 0, total |-> 0]

\* outcome: "none" | "invalid" | "no_data" | "saved" (recordMeasurement
\* returns true) | "read_failed" | "write_failed" (writeToExcel threw and
\* run() printed the error and exited)
Report(outcome, stats, overall, warned) ==
  [outcome |-> outcome, stats |-> stats, overall |-> overall, warned |-> warned]

NoReport == Report("none", << >>, NoOverall, FALSE)

Op(name, arg) == name

\* the constructor
Init ==
  /\ tool \in {"point", "survey"}
  /\ pc = "run_connect"
  /\ cycle = 0
  /\ store \in (IF tool = "point" THEN PointStores ELSE SurveyStores)
  /\ isRecording = FALSE
  /\ recordings = << >>
  /\ gatewayMacs = {}
  /\ currentGatewayMac = << >>
  /\ currentDistance = << >>
  /\ currentLocationId = << >>
  /\ currentCoordinates = << >>
  /\ input = NoInput
  /\ report = NoReport
  /\ lastOp = Op("constructor", "")
  /\ merged = << >>
  /\ others = "none"

(***************************************************************************)
(* run(): connect, then the prompt loop.                                   *)
(***************************************************************************)
\* await this.connect(): 'connect' resolves, 'error' rejects and run() exits
Connect(ok) ==
  /\ pc = "run_connect"
  /\ pc' = IF ok THEN "run_loop" ELSE "exited"
  /\ lastOp' = Op("connect", "")
  /\ UNCHANGED <<tool, others, cycle, store, isRecording, buffer, context, input, report, merged>>

\* 'Record another ...? (y/n)'
AnswerContinue(answer) ==
  /\ pc = "run_loop"
  /\ ToLowerCase(answer) = "y" => cycle < MaxCycles
  /\ IF ToLowerCase(answer) # "y"
     THEN pc' = "done" /\ cycle' = cycle
     ELSE /\ pc' = IF tool = "point" THEN "rm_mac" ELSE "rm_location"
          /\ cycle' = cycle + 1
  /\ input' = NoInput
  /\ lastOp' = Op("continue", answer)
  /\ UNCHANGED <<tool, others, store, isRecording, buffer, context, report, merged>>

\* recordMeasurement returns false before arming
Skip(name, arg) ==
  /\ pc' = "run_loop"
  /\ report' = Report("invalid", << >>, NoOverall, FALSE)
  /\ lastOp' = Op(name, arg)
  /\ UNCHANGED <<tool, others, cycle, store, isRecording, buffer, context, input, merged>>

(***************************************************************************)
(* GatewayCalibrationTool.recordMeasurement up to the timer.               *)
(***************************************************************************)
EnterGatewayMac(answer) ==
  /\ pc = "rm_mac"
  /\ IF Trim(answer) = ""
     THEN Skip("gateway_mac", answer)
     ELSE /\ pc' = "rm_distance"
          /\ input' = [input EXCEPT !.gatewayMac = answer]
          /\ lastOp' = Op("gateway_mac", answer)
          /\ UNCHANGED <<tool, others, cycle, store, isRecording, buffer, context, report, merged>>

\* variant of DistanceInvalid without the distance <= 0 test (C5 depends on it)
DistanceInvalid_NanOnly(distance) == distance.nan

\* isNaN(distance) || distance <= 0
DistanceInvalid(distance) == distance.nan \/ distance.v <= 0

EnterDistance(answer) ==
  /\ pc = "rm_distance"
  /\ LET distance == ParseFloat(answer)
     IN IF DistanceInvalid(distance)
        THEN Skip("distance", answer)
        ELSE /\ recordings' = << >>
             /\ isRecording' = TRUE
             /\ currentGatewayMac' = <<ToUpperCase(Trim(input.gatewayMac))>>
             /\ currentDistance' = <<distance.v>>
             /\ pc' = "rm_wait"
             /\ lastOp' = Op("distance", answer)
             /\ UNCHANGED <<tool, others, cycle, store, gatewayMacs, currentLocationId,
                            currentCoordinates, input, report, merged>>

(***************************************************************************)
(* FingerprintCollectionTool.recordMeasurement up to the timer.            *)
(***************************************************************************)
EnterLocationId(answer) ==
  /\ pc = "rm_location"
  /\ IF Trim(answer) = ""
     THEN Skip("location", answer)
     ELSE /\ pc' = "rm_x"
          /\ input' = [input EXCEPT !.locationId = answer]
          /\ lastOp' = Op("location", answer)
          /\ UNCHANGED <<tool, others, cycle, store, isRecording, buffer, context, report, merged>>

EnterX(answer) ==
  /\ pc = "rm_x"
  /\ IF ParseFloat(answer).nan
     THEN Skip("x", answer)
     ELSE /\ pc' = "rm_y"
          /\ input' = [input EXCEPT !.x = ParseFloat(answer).v]
          /\ lastOp' = Op("x", answer)
          /\ UNCHANGED <<tool, others, cycle, store, isRecording, buffer, context, report, merged>>

EnterY(answer) ==
  /\ pc = "rm_y"
  /\ IF ParseFloat(answer).nan
     THEN Skip("y", answer)
     ELSE /\ pc' = "rm_z"
          /\ input' = [input EXCEPT !.y = ParseFloat(answer).v]
          /\ lastOp' = Op("y", answer)
          /\ UNCHANGED <<tool, others, cycle, store, isRecording, buffer, context, report, merged>>

\* zInput.trim() ? parseFloat(zInput) : 0
ParseZ(answer) ==
  IF Trim(answer) # "" THEN ParseFloat(answer) ELSE [nan |-> FALSE, v |-> 0]

\* variant of EnterZ that leaves the observed gateways of the earlier window
\* (C23 depends on gatewayMacs.clear())
EnterZ_KeepsObserved(answer) ==
  /\ pc = "rm_z"
  /\ IF ParseZ(answer).nan
     THEN Skip("z", answer)
     ELSE /\ recordings' = << >>
          /\ isRecording' = TRUE
          /\ currentLocationId' = <<Trim(input.locationId)>>
          /\ currentCoordinates' = <<[x |-> input.x, y |-> input.y,
                                      z |-> ParseZ(answer).v]>>
          /\ pc' = "rm_wait"
          /\ lastOp' = Op("z", answer)
          /\ UNCHANGED <<tool, others, cycle, store, gatewayMacs, currentGatewayMac,
                         currentDistance, input, report, merged>>

EnterZ(answer) ==
  /\ pc = "rm_z"
  /\ IF ParseZ(answer).nan
     THEN Skip("z", answer)
     ELSE /\ recordings' = << >>
          /\ gatewayMacs' = {}
          /\ isRecording' = TRUE
          /\ currentLocationId' = <<Trim(input.locationId)>>
          /\ currentCoordinates' = <<[x |-> input.x, y |-> input.y,
                                      z |-> ParseZ(answer).v]>>
          /\ pc' = "rm_wait"
          /\ lastOp' = Op("z", answer)
          /\ UNCHANGED <<tool, others, cycle, store, currentGatewayMac, currentDistance,
                         input, report, merged>>

(***************************************************************************)
(* handleMessage.  The 'message' listener is installed by connect() and    *)
(* runs for every message until the client is ended.                       *)
(***************************************************************************)
Connected == pc \notin {"run_connect", "done", "exited"}

\* variant of PointHandle that compares the mac as sent, not upper-cased
\* (C9 depends on the toUpperCase of the message's mac)
PointHandle_ExactMatch(m) ==
  IF ~isRecording THEN recordings
  ELSE IF m.shape # "ok" THEN recordings
  ELSE IF <<m.mac>> # currentGatewayMac THEN recordings
  ELSE recordings
       \o [i \in 1..Len(NumericItems(m.items)) |->
             [gatewayMac |-> ToUpperCase(m.mac), rssi |-> NumericItems(m.items)[i]]]

\* recordings after the point tool handled message m
PointHandle(m) ==
  IF ~isRecording THEN recordings
  ELSE IF m.shape # "ok" THEN recordings
  ELSE IF <<ToUpperCase(m.mac)>> # currentGatewayMac THEN recordings
  ELSE recordings
       \o [i \in 1..Len(NumericItems(m.items)) |->
             [gatewayMac |-> ToUpperCase(m.mac), rssi |-> NumericItems(m.items)[i]]]

HasKey(entries, mac) == \E i \in 1..Len(entries) : entries[i].mac = mac

\* variant of MapPush that keeps only the values pushed last (C15 depends
\* on the push onto the values already buffered)
MapPush_Replace(entries, mac, values) ==
  IF values = << >> THEN entries
  ELSE IF HasKey(entries, mac)
  THEN [i \in 1..Len(entries) |->
          IF entries[i].mac = mac THEN [mac |-> mac, values |-> values]
          ELSE entries[i]]
  ELSE Append(entries, [mac |-> mac, values |-> values])

\* Map: set(mac, []) on the first numeric entry, then push
MapPush(entries, mac, values) ==
  IF values = << >> THEN entries
  ELSE IF HasKey(entries, mac)
  THEN [i \in 1..Len(entries) |->
          IF entries[i].mac = mac
          THEN [mac |-> mac, values |-> entries[i].values \o values]
          ELSE entries[i]]
  ELSE Append(entries, [mac |-> mac, values |-> values])

\* variant of SurveyHandle that records a gateway as observed only when the
\* message carries a numeric entry (C19 depends on the add before the loop)
SurveyHandle_SamplesOnly(m) ==
  IF ~isRecording \/ m.shape # "ok"
  THEN [recordings |-> recordings, gatewayMacs |-> gatewayMacs]
  ELSE [recordings |-> MapPush(recordings, ToUpperCase(m.mac), NumericItems(m.items)),
        gatewayMacs |-> IF NumericItems(m.items) = << >> THEN gatewayMacs
                        ELSE gatewayMacs \cup {ToUpperCase(m.mac)}]

\* variant of SurveyHandle without the isRecording test (C8 depends on it)
SurveyHandle_NoGuard(m) ==
  IF m.shape # "ok"
  THEN [recordings |-> recordings, gatewayMacs |-> gatewayMacs]
  ELSE [recordings |-> MapPush(recordings, ToUpperCase(m.mac), NumericItems(m.items)),
        gatewayMacs |-> gatewayMacs \cup {ToUpperCase(m.mac)}]

\* [recordings, gatewayMacs] after the survey tool handled message m
SurveyHandle(m) ==
  IF ~isRecording \/ m.shape # "ok"
  THEN [recordings |-> recordings, gatewayMacs |-> gatewayMacs]
  ELSE [recordings |-> MapPush(recordings, ToUpperCase(m.mac), NumericItems(m.items)),
        gatewayMacs |-> gatewayMacs \cup {ToUpperCase(m.mac)}]

\* samples in the buffer
SampleCount(tl, recs) == IF tl = "point" THEN Len(recs) ELSE Len(Flatten(recs))

\* the 'message' listener; the model delivers a message only while the
\* buffer stays within max samples
HandleMessageUpTo(m, max) ==
  /\ Connected
  /\ IF tool = "point"
     THEN recordings' = PointHandle(m) /\ gatewayMacs' = gatewayMacs
     ELSE /\ recordings' = SurveyHandle(m).recordings
          /\ gatewayMacs' = SurveyHandle(m).gatewayMacs
  /\ SampleCount(tool, recordings') <= max
  /\ lastOp' = Op("message", m.mac)
  /\ UNCHANGED <<tool, others, pc, cycle, store, isRecording, context, input, report, merged>>

HandleMessage(m) == HandleMessageUpTo(m, MaxSamples)

\* variant of ProgressTick that ends the recording (C20 depends on the
\* callback only printing)
ProgressTick_Closes ==
  /\ pc = "rm_wait"
  /\ lastOp' = Op("progress", "")
  /\ isRecording' = FALSE
  /\ UNCHANGED <<tool, others, pc, cycle, store, buffer, context, input, report, merged>>

\* the setInterval callback: prints the progress line
ProgressTick ==
  /\ pc = "rm_wait"
  /\ lastOp' = Op("progress", "")
  /\ UNCHANGED <<tool, others, pc, cycle, store, isRecording, buffer, context, input, report, merged>>

(***************************************************************************)
(* The setTimeout of RECORDING_DURATION fires: the rest of                 *)
(* recordMeasurement, writeToExcel included, runs without yielding.        *)
(***************************************************************************)
Stamp == "T" \o ToString(cycle)

PointValues(recs) == [i \in 1..Len(recs) |-> recs[i].rssi]

\* this.recordings.length === 0
PointNoData(recs) == Len(recs) = 0

\* variant of PointClose that leaves isRecording as it is when there are
\* samples to reduce (C21 depends on isRecording = false coming first)
PointClose_OpenWhileWriting(diskOk, returned, thrown) ==
  /\ isRecording' = IF PointNoData(recordings) THEN FALSE ELSE isRecording
  /\ IF PointNoData(recordings)
     THEN /\ report' = Report("no_data", << >>, NoOverall, FALSE)
          /\ pc' = returned
          /\ store' = store
     ELSE LET stats == StatsOf(currentGatewayMac[1], PointValues(recordings))
          IN IF PointWriteThrows(store) \/ ~diskOk
             THEN /\ report' = Report(IF PointWriteThrows(store) THEN "read_failed"
                                      ELSE "write_failed",
                                      <<stats>>, NoOverall, FALSE)
                  /\ pc' = thrown
                  /\ store' = store
             ELSE /\ report' = Report("saved", <<stats>>, NoOverall, FALSE)
                  /\ pc' = returned
                  /\ store' = PointWriteToExcel(store, currentGatewayMac[1],
                                                currentDistance[1], stats.sum,
                                                stats.samples, Stamp)
  /\ UNCHANGED <<tool, cycle, buffer, context, input, merged>>

\* the rest of recordMeasurement after the await of the timer.  diskOk:
\* XLSX.writeFile succeeds.  returned / thrown: where the caller goes on when
\* the call returns, and when writeToExcel throws
PointClose(diskOk, returned, thrown) ==
  /\ isRecording' = FALSE
  /\ IF PointNoData(recordings)
     THEN /\ report' = Report("no_data", << >>, NoOverall, FALSE)
          /\ pc' = returned
          /\ store' = store
     ELSE LET stats == StatsOf(currentGatewayMac[1], PointValues(recordings))
          IN IF PointWriteThrows(store) \/ ~diskOk
             THEN /\ report' = Report(IF PointWriteThrows(store) THEN "read_failed"
                                      ELSE "write_failed",
                                      <<stats>>, NoOverall, FALSE)
                  /\ pc' = thrown
                  /\ store' = store
             ELSE /\ report' = Report("saved", <<stats>>, NoOverall, FALSE)
                  /\ pc' = returned
                  /\ store' = PointWriteToExcel(store, currentGatewayMac[1],
                                                currentDistance[1], stats.sum,
                                                stats.samples, Stamp)
  /\ UNCHANGED <<tool, cycle, buffer, context, input, merged>>

\* a timer set after the one that fired is now the oldest
OldestFired(o) == IF o = "after" THEN "due" ELSE o

\* the timer of run()'s recordMeasurement call fires; when writeToExcel
\* throws, run() prints the error and exits
PointTimerFires(diskOk) ==
  /\ tool = "point"
  /\ pc = "rm_wait"
  /\ others # "due"
  /\ lastOp' = Op("timer", "")
  /\ others' = OldestFired(others)
  /\ PointClose(diskOk, "run_loop", "exited")

\* stats[gatewayMac] for every entry of the Map
SurveyStats(entries) ==
  [i \in 1..Len(entries) |-> StatsOf(entries[i].mac, entries[i].values)]

\* rssiReadings[gatewayMac] = Math.round(avgRssi * 100) / 100
RssiReadings(entries) ==
  [mac \in {entries[i].mac : i \in 1..Len(entries)} |->
     LET e == entries[CHOOSE i \in 1..Len(entries) : entries[i].mac = mac]
     IN Round2(Sum(e.values), Len(e.values))]

Overall(entries) ==
  LET all == Flatten(entries)
  IN [min |-> IF Len(all) > 0 THEN MinOf(all) ELSE 0,
      max |-> IF Len(all) > 0 THEN MaxOf(all) ELSE 0,
      total |-> Len(all)]

\* variant of SurveyNoData that tests the observed gateways instead of the
\* Map (C4 depends on the test of recordings)
SurveyNoData_ByGateways(recs, macs) == macs = {}

\* this.recordings.size === 0
SurveyNoData(recs, macs) == Len(recs) = 0

\* the rest of recordMeasurement after the await of the timer
SurveyClose(diskOk, returned, thrown) ==
  /\ isRecording' = FALSE
  /\ IF SurveyNoData(recordings, gatewayMacs)
     THEN /\ report' = Report("no_data", << >>, NoOverall, FALSE)
          /\ pc' = returned
          /\ store' = store
          /\ merged' = merged
     ELSE LET stats == SurveyStats(recordings)
              overall == Overall(recordings)
              warned == SurveyLoad(store).warned
          IN IF ~diskOk
             THEN /\ report' = Report("write_failed", stats, overall, warned)
                  /\ pc' = thrown
                  /\ store' = store
                  /\ merged' = merged
             ELSE /\ report' = Report("saved", stats, overall, warned)
                  /\ pc' = returned
                  /\ store' = SurveyWriteToExcel(store, gatewayMacs,
                                                 currentLocationId[1],
                                                 currentCoordinates[1],
                                                 RssiReadings(recordings),
                                                 overall.min, overall.max,
                                                 overall.total)
                  /\ merged' = Append(merged, gatewayMacs)
  /\ UNCHANGED <<tool, cycle, buffer, context, input>>

SurveyTimerFires(diskOk) ==
  /\ tool = "survey"
  /\ pc = "rm_wait"
  /\ others # "due"
  /\ lastOp' = Op("timer", "")
  /\ others' = OldestFired(others)
  /\ SurveyClose(diskOk, "run_loop", "exited")

Next ==
  \/ \E ok \in BOOLEAN : Connect(ok)
  \/ \E answer \in ContinueAnswers : AnswerContinue(answer)
  \/ \E answer \in MacInputs : EnterGatewayMac(answer)
  \/ \E answer \in DistanceInputs : EnterDistance(answer)
  \/ \E answer \in LocationInputs : EnterLocationId(answer)
  \/ \E answer \in XInputs : EnterX(answer)
  \/ \E answer \in YInputs : EnterY(answer)
  \/ \E answer \in ZInputs : EnterZ(answer)
  \/ \E m \in Messages : HandleMessage(m)
  \/ ProgressTick
  \/ \E diskOk \in BOOLEAN : PointTimerFires(diskOk)
  \/ \E diskOk \in BOOLEAN : SurveyTimerFires(diskOk)

Spec == Init /\ [][Next]_vars

\* the event loop runs the callback of a timer that has elapsed
TimerFires ==
  \E diskOk \in BOOLEAN : PointTimerFires(diskOk) \/ SurveyTimerFires(diskOk)

\* the steps of TimerFires told by their guard and their label: Next labels
\* no other step "timer", and a pending timer is what enables one
TimerCallbackRuns ==
  /\ pc = "rm_wait" /\ others # "due"
  /\ lastOp' = Op("timer", "")

TimerCallbackIsTimerFires == [][TimerCallbackRuns <=> TimerFires]_vars

\* setTimeout: a timer that is pending does fire
LiveSpec == Spec /\ WF_lastOp(TimerCallbackRuns)

(***************************************************************************)
(* The exported class used by run() and by one more caller: a second       *)
(* recordMeasurement call, made while run() is in its loop, answers its    *)
(* prompts and reaches the arming step, then waits on its own timer.       *)
(***************************************************************************)
\* the second call's timer is set after the timer of run()'s call when that
\* one is pending, and is the oldest otherwise
TimerSetAt(p) == IF p = "rm_wait" THEN "after" ELSE "due"

\* GatewayCalibrationTool.recordMeasurement of the second caller, from its
\* valid answers to the await of the timer
OtherPointArms(gatewayMac, distanceInput) ==
  /\ tool = "point" /\ Connected /\ others = "none"
  /\ Trim(gatewayMac) # ""
  /\ ~DistanceInvalid(ParseFloat(distanceInput))
  /\ recordings' = << >>
  /\ isRecording' = TRUE
  /\ currentGatewayMac' = <<ToUpperCase(Trim(gatewayMac))>>
  /\ currentDistance' = <<ParseFloat(distanceInput).v>>
  /\ others' = TimerSetAt(pc)
  /\ lastOp' = Op("other_arm", gatewayMac)
  /\ UNCHANGED <<tool, pc, cycle, store, gatewayMacs, currentLocationId,
                 currentCoordinates, input, report, merged>>

\* FingerprintCollectionTool.recordMeasurement of the second caller
OtherSurveyArms(locationId, xInput, yInput, zInput) ==
  /\ tool = "survey" /\ Connected /\ others = "none"
  /\ Trim(locationId) # ""
  /\ ~ParseFloat(xInput).nan /\ ~ParseFloat(yInput).nan /\ ~ParseZ(zInput).nan
  /\ recordings' = << >>
  /\ gatewayMacs' = {}
  /\ isRecording' = TRUE
  /\ currentLocationId' = <<Trim(locationId)>>
  /\ currentCoordinates' = <<[x |-> ParseFloat(xInput).v, y |-> ParseFloat(yInput).v,
                              z |-> ParseZ(zInput).v]>>
  /\ others' = TimerSetAt(pc)
  /\ lastOp' = Op("other_arm", locationId)
  /\ UNCHANGED <<tool, pc, cycle, store, currentGatewayMac, currentDistance,
                 input, report, merged>>

\* the second call's timer fires; its result or exception goes to its caller
OtherTimerFires(diskOk) ==
  /\ others = "due"
  /\ others' = "returned"
  /\ lastOp' = Op("other_timer", "")
  /\ IF tool = "point" THEN PointClose(diskOk, pc, pc) ELSE SurveyClose(diskOk, pc, pc)

OtherMacInputs == {"x9 "}

OtherLocationInputs == {"p9"}

ApiInit == Init /\ store = AbsentStore

ApiMessages == {GoodMessage("x1", <<NumberItem(-5)>>), GoodMessage("X2", <<NumberItem(5)>>)}

ApiNext ==
  \/ \E ok \in BOOLEAN : Connect(ok)
  \/ \E answer \in ContinueAnswers : AnswerContinue(answer)
  \/ \E answer \in MacInputs : EnterGatewayMac(answer)
  \/ \E answer \in DistanceInputs : EnterDistance(answer)
  \/ \E answer \in LocationInputs : EnterLocationId(answer)
  \/ \E answer \in XInputs : EnterX(answer)
  \/ \E answer \in YInputs : EnterY(answer)
  \/ \E answer \in ZInputs : EnterZ(answer)
  \/ \E m \in ApiMessages : HandleMessage(m)
  \/ ProgressTick
  \/ \E diskOk \in BOOLEAN : PointTimerFires(diskOk)
  \/ \E diskOk \in BOOLEAN : SurveyTimerFires(diskOk)
  \/ \E gatewayMac \in OtherMacInputs, distanceInput \in {"2.5", "0"} :
       OtherPointArms(gatewayMac, distanceInput)
  \/ \E locationId \in OtherLocationInputs, zInput \in {"", "z"} :
       OtherSurveyArms(locationId, "1", "2", zInput)
  \/ \E diskOk \in BOOLEAN : OtherTimerFires(diskOk)

ApiSpec == ApiInit /\ [][ApiNext]_vars

(***************************************************************************)
(* A survey session that finds no file at the output path and hears three  *)
(* gateways.                                                               *)
(***************************************************************************)
SurveyMacs == {"x1", "X2", "x3"}

SurveyMessages ==
  {GoodMessage(mac, items) : mac \in SurveyMacs, items \in {<< >>, <<NumberItem(-5)>>}}

SurveyInit == Init /\ tool = "survey" /\ store = AbsentStore

SurveyNext ==
  \/ \E ok \in BOOLEAN : Connect(ok)
  \/ \E answer \in ContinueAnswers : AnswerContinue(answer)
  \/ \E answer \in LocationInputs : EnterLocationId(answer)
  \/ \E answer \in XInputs : EnterX(answer)
  \/ \E answer \in YInputs : EnterY(answer)
  \/ \E answer \in ZInputs : EnterZ(answer)
  \/ \E m \in SurveyMessages : HandleMessage(m)
  \/ ProgressTick
  \/ \E diskOk \in BOOLEAN : SurveyTimerFires(diskOk)

SurveySpec == SurveyInit /\ [][SurveyNext]_vars

(***************************************************************************)
(* A point session with the gateway AA:BB:CC:DD:EE:FF, whose messages      *)
(* carry several detections each.                                          *)
(***************************************************************************)
PointMacInputs == {"aa:bb:cc:dd:ee:ff "}

\* payload.data of one message, all entries numeric
Detections(values) == [i \in 1..Len(values) |-> NumberItem(values[i])]

PointItemLists ==
  {Detections(<<-60, -62, -59, -61, -60>>), Detections(<<-63, -58, -61, -60, -62>>),
   Detections(<<-60, -61, -61>>)}

PointMessages ==
  {GoodMessage(mac, items) : mac \in {"AA:BB:CC:DD:EE:FF", "X2"}, items \in PointItemLists}

PointInit == Init /\ tool = "point"

PointNext ==
  \/ \E ok \in BOOLEAN : Connect(ok)
  \/ \E answer \in ContinueAnswers : AnswerContinue(answer)
  \/ \E answer \in PointMacInputs : EnterGatewayMac(answer)
  \/ \E answer \in DistanceInputs : EnterDistance(answer)
  \/ \E m \in PointMessages : HandleMessageUpTo(m, MaxPointSamples)
  \/ ProgressTick
  \/ \E diskOk \in BOOLEAN : PointTimerFires(diskOk)

PointSpec == PointInit /\ [][PointNext]_vars

(***************************************************************************)
(* Sessions whose messages carry one entry each, among them a sample as    *)
(* large as the first number whose neighbours are two apart: the order in  *)
(* which the messages of a window arrive is then the order of the buffer.  *)
(***************************************************************************)
OrderMacInputs == {"X2"}
OrderDistanceInputs == {"2.5"}
OrderLocationInputs == {" p1 "}
OrderXInputs == {"1"}
OrderYInputs == {"2"}
OrderZInputs == {""}

OrderMessages ==
  {GoodMessage("X2", <<NumberItem(Exact)>>), GoodMessage("X2", <<NumberItem(1)>>),
   GoodMessage("x1", <<NumberItem(-5)>>)}

OrderNext ==
  \/ \E ok \in BOOLEAN : Connect(ok)
  \/ \E answer \in ContinueAnswers : AnswerContinue(answer)
  \/ \E answer \in OrderMacInputs : EnterGatewayMac(answer)
  \/ \E answer \in OrderDistanceInputs : EnterDistance(answer)
  \/ \E answer \in OrderLocationInputs : EnterLocationId(answer)
  \/ \E answer \in OrderXInputs : EnterX(answer)
  \/ \E answer \in OrderYInputs : EnterY(answer)
  \/ \E answer \in OrderZInputs : EnterZ(answer)
  \/ \E m \in OrderMessages : HandleMessageUpTo(m, MaxOrderSamples)
  \/ ProgressTick
  \/ \E diskOk \in BOOLEAN : PointTimerFires(diskOk)
  \/ \E diskOk \in BOOLEAN : SurveyTimerFires(diskOk)

OrderSpec == Init /\ [][OrderNext]_vars

(***************************************************************************)
(* Reading the store: the table of a tool, the last write.                 *)
(***************************************************************************)
OwnSheetName(tl) == IF tl = "point" THEN PointSheetName ELSE SurveySheetName

Keyword(tl) == IF tl = "point" THEN "calibration" ELSE "fingerprint"

Readable(st) == st.exists /\ st.parseable /\ Len(st.sheets) > 0

\* the rows of the tool's table: its own sheet, or before the tool ever wrote
\* to this workbook the sheet it locates
Table(st, tl) ==
  IF ~Readable(st) THEN << >>
  ELSE IF HasSheet(st.sheets, OwnSheetName(tl))
  THEN SheetRows(st.sheets, OwnSheetName(tl))
  ELSE SheetRows(st.sheets, FindSheetName(st.sheets, Keyword(tl)))

\* what a cell shows: 2.5 and "2.5" show the same
CellText(cell) == IF cell.t = "n" THEN FormatNumber(cell.n) ELSE cell.s

\* cell j of a row, '' beyond its end
CellAt(row, j) == IF j <= Len(row) THEN row[j] ELSE Empty

\* every cell of old is at its place in new; new may be longer
RowKept(old, new) ==
  \A j \in 1..Len(old) : CellText(CellAt(new, j)) = CellText(old[j])

\* new is old with one more last row, after at most one synthesized header row
TablePreserved(old, new) ==
  \E k \in {0, 1} :
    /\ Len(new) = Len(old) + k + 1
    /\ \A i \in 1..Len(old) :
         /\ RowKept(old[i], new[i + k])
         /\ \A j \in (Len(old[i]) + 1)..Len(new[i + k]) :
              i > 1 => new[i + k][j] = Empty

\* this step is a recordMeasurement that ended in a completed writeToExcel
WriteStep == lastOp' = "timer" /\ report'.outcome = "saved"

Wrote == lastOp = "timer" /\ report.outcome = "saved"

(***************************************************************************)
(* C1.  Every writeToExcel call of either tool preserves the table: each   *)
(* header column and each row that was in the table before the call is in  *)
(* it after the call, in the same order and with the same values; the only *)
(* additions are trailing columns and exactly one new last row.            *)
(***************************************************************************)
C1_WritePreservesTable ==
  [][WriteStep => TablePreserved(Table(store, tool), Table(store', tool))]_vars

(***************************************************************************)
(* C2.  In the row the survey tool appends, the cell under every source    *)
(* column of the reconciled header holds that source's rounded mean when   *)
(* the source had samples in this cycle and is empty otherwise.  Stated    *)
(* for a header that starts with the seven fixed columns, and leaving the  *)
(* cell of a source whose mean is exactly 0 to C24.                        *)
(***************************************************************************)
\* the header starts with the seven fixed columns
FixedColsFirst(header) ==
  Len(header) >= Len(SurveyHeader)
  /\ SubSeq(header, 1, Len(SurveyHeader)) = SurveyHeader

\* the samples this cycle buffered for a source, << >> when none
ValuesOf(entries, mac) ==
  IF HasKey(entries, mac)
  THEN entries[CHOOSE i \in 1..Len(entries) : entries[i].mac = mac].values
  ELSE << >>

\* the cell the claim expects under source column mac
ExpectedCell(entries, mac) ==
  IF ValuesOf(entries, mac) = << >> THEN Empty
  ELSE Num(Round2(Sum(ValuesOf(entries, mac)), Len(ValuesOf(entries, mac))))

LastRow(rows) == rows[Len(rows)]

C2_RowAlignedWithHeader ==
  (tool = "survey" /\ Wrote /\ FixedColsFirst(Table(store, "survey")[1])) =>
    LET rows == Table(store, "survey")
    IN \A j \in (Len(SurveyHeader) + 1)..Len(rows[1]) :
         ExpectedCell(recordings, rows[1][j].s) # Num(0) =>
           CellAt(LastRow(rows), j) = ExpectedCell(recordings, rows[1][j].s)

(***************************************************************************)
(* C3.  Starting from an absent store, after two survey cycles with        *)
(* disjoint source sets A (merged first) and B (merged second) the source  *)
(* columns of the header are exactly the union of A and B, the sources of  *)
(* A in lexicographic order followed by the sources of B in lexicographic  *)
(* order.  The set of source columns does not depend on which cycle is     *)
(* merged first; their order does.                                         *)
(***************************************************************************)
\* the source columns of a header, as strings
SourceCols(header) ==
  [j \in 1..(Len(header) - Len(SurveyHeader)) |-> header[j + Len(SurveyHeader)].s]

\* two cycles with disjoint source sets were merged into the absent store
TwoDisjointMerges ==
  /\ tool = "survey" /\ Len(merged) = 2
  /\ merged[1] \cap merged[2] = {}

\* cols holds exactly the elements of S, each once
ExactlyTheSet(cols, S) ==
  /\ {cols[j] : j \in 1..Len(cols)} = S
  /\ Len(cols) = Cardinality(S)

\* the elements of S appear in cols in lexicographic order
InOrderWithin(cols, S) ==
  \A i, j \in 1..Len(cols) :
    (i < j /\ cols[i] \in S /\ cols[j] \in S) => StrLess(cols[i], cols[j])

C4_EmptyWindowNoWrite ==
  [][(lastOp' = "timer" /\ SampleCount(tool, recordings) = 0) =>
       (report'.outcome = "no_data" /\ store' = store /\ pc' = "run_loop")]_vars

\* a survey window that observed a gateway but no sample closed on no store
C4_Witness ==
  /\ tool = "survey" /\ lastOp = "timer" /\ report.outcome = "no_data"
  /\ gatewayMacs # {} /\ SampleCount(tool, recordings) = 0
  /\ ~store.exists

(***************************************************************************)
(* C5.  Invalid operator input (empty identifier after trimming, a         *)
(* distance that is no number or not positive, a non-numeric X, Y or Z)    *)
(* makes recordMeasurement return before arming: isRecording stays false,  *)
(* buffer, context and store keep their values, and the loop prompts for   *)
(* the next cycle.                                                         *)
(***************************************************************************)
InvalidMacAnswers == {"  "}
InvalidDistanceAnswers == {"-5", "abc", "0"}
InvalidLocationAnswers == {" "}
InvalidXAnswers == {"x"}
InvalidYAnswers == {""}
InvalidZAnswers == {"z"}

InvalidAnswerStep ==
  \/ \E a \in InvalidMacAnswers : EnterGatewayMac(a)
  \/ \E a \in InvalidDistanceAnswers : EnterDistance(a)
  \/ \E a \in InvalidLocationAnswers : EnterLocationId(a)
  \/ \E a \in InvalidXAnswers : EnterX(a)
  \/ \E a \in InvalidYAnswers : EnterY(a)
  \/ \E a \in InvalidZAnswers : EnterZ(a)

C5_InvalidInputNeverArms ==
  [][InvalidAnswerStep =>
       /\ ~isRecording /\ ~isRecording'
       /\ pc' = "run_loop"
       /\ UNCHANGED <<recordings, gatewayMacs, context, store, merged>>]_vars

\* a second cycle was refused at the distance prompt; the first cycle's
\* samples and context are still there
C5_Witness ==
  /\ tool = "point" /\ lastOp = "distance" /\ report.outcome = "invalid"
  /\ pc = "run_loop" /\ ~isRecording
  /\ recordings # << >> /\ currentGatewayMac # << >>

(***************************************************************************)
(* C6.  When the store exists and the first row of the located sheet is    *)
(* not a header (a data row, or the sheet is empty), writeToExcel writes   *)
(* the tool's fixed header as first row, every former row unchanged below  *)
(* it and the new row last.                                                *)
(***************************************************************************)
FixedHeader(tl) == IF tl = "point" THEN PointHeader ELSE SurveyHeader

LocatedRows(st, tl) == SheetRows(st.sheets, FindSheetName(st.sheets, Keyword(tl)))

\* no cell of the first row is one of the tool's header columns
Headerless(rows, tl) ==
  rows = << >> \/ \A j \in 1..Len(rows[1]) : ~RowIncludes(FixedHeader(tl), rows[1][j])

HeaderFirst(rows, tl) ==
  /\ Len(rows[1]) >= Len(FixedHeader(tl))
  /\ SubSeq(rows[1], 1, Len(FixedHeader(tl))) = FixedHeader(tl)

C6_HeaderSynthesized ==
  [][(WriteStep /\ Readable(store) /\ Headerless(LocatedRows(store, tool), tool)) =>
       LET old == LocatedRows(store, tool)
           new == Table(store', tool)
       IN /\ Len(new) = Len(old) + 2
          /\ HeaderFirst(new, tool)
          /\ \A i \in 1..Len(old) : RowKept(old[i], new[i + 1])]_vars

(***************************************************************************)
(* C7.  When the existing store cannot be parsed, writeToExcel does not    *)
(* abort the cycle or the session: it warns, writes a fresh table of the   *)
(* fixed header and the new row, and the loop goes on to the next prompt.  *)
(***************************************************************************)
C7_CorruptStoreStartsFresh ==
  [][(/\ lastOp' = "timer"
      /\ store.exists /\ ~store.parseable
      /\ SampleCount(tool, recordings) > 0
      /\ report'.outcome # "write_failed") =>
       /\ pc' = "run_loop"
       /\ report'.outcome = "saved"
       /\ report'.warned
       /\ Len(Table(store', tool)) = 2
       /\ HeaderFirst(Table(store', tool), tool)]_vars

(***************************************************************************)
(* C8.  A handleMessage call made while no window is armed changes         *)
(* nothing: buffer and observed-source set are as before, and nothing is   *)
(* kept for a later window.                                                *)
(***************************************************************************)
C8_IdleMessageIgnored ==
  [][(lastOp' = "message" /\ ~isRecording) =>
       UNCHANGED <<tool, others, pc, cycle, store, isRecording, recordings, gatewayMacs,
                   context, input, report, merged>>]_vars

\* a message arrived after a window closed with samples in its buffer
C8_Witness ==
  /\ lastOp = "message" /\ ~isRecording /\ pc = "run_loop" /\ cycle >= 1
  /\ recordings # << >>

(***************************************************************************)
(* C9.  Point tool: during an armed window every buffered sample has the   *)
(* operator's filter, trimmed and upper-cased, as source; a message whose  *)
(* mac differs from the filter beyond letter case adds no sample, one that *)
(* differs only in letter case adds its samples.                           *)
(***************************************************************************)
\* the filter the claim expects for an operator answer
ExpectedFilter(answer) ==
  CASE answer = " x1 " -> "X1"
    [] answer = "X2" -> "X2"
    [] answer = "aa:bb:cc:dd:ee:ff " -> "AA:BB:CC:DD:EE:FF"
    [] OTHER -> ""

SameIgnoringCase(a, b) == ToLowerCase(a) = ToLowerCase(b)

C9_BufferHasFilterOnly ==
  (tool = "point" /\ isRecording) =>
    /\ currentGatewayMac = <<ExpectedFilter(input.gatewayMac)>>
    /\ \A i \in 1..Len(recordings) :
         recordings[i].gatewayMac = ExpectedFilter(input.gatewayMac)

C9_MessageStep ==
  \A m \in Messages :
    (tool = "point" /\ isRecording /\ HandleMessage(m)) =>
      IF m.shape = "ok" /\ SameIgnoringCase(m.mac, currentGatewayMac[1])
      THEN /\ Len(recordings') = Len(recordings) + Len(NumericItems(m.items))
           /\ SubSeq(recordings', 1, Len(recordings)) = recordings
      ELSE recordings' = recordings

C9_PointFilter == [](C9_BufferHasFilterOnly) /\ [][C9_MessageStep]_vars

\* the filter was entered as " x1 "; the only message mac that matches it,
\* "x1", differs from the filter X1 in letter case, and a sample is buffered
C9_Witness ==
  /\ tool = "point" /\ isRecording /\ lastOp = "message"
  /\ input.gatewayMac = " x1 " /\ currentGatewayMac = <<"X1">>
  /\ recordings # << >>

(***************************************************************************)
(* C10.  For every window that closes with N >= 1 samples for a source the *)
(* statistics satisfy N*min <= sum <= N*max (min <= mean <= max) and       *)
(* report N samples; the survey tool's overall total is the sum of the     *)
(* per-source counts, its min and max the least and greatest of the        *)
(* per-source min and max.                                                 *)
(***************************************************************************)
\* samples the buffer holds for a source
BufferedFor(mac) ==
  IF tool = "point"
  THEN Cardinality({i \in 1..Len(recordings) : recordings[i].gatewayMac = mac})
  ELSE Len(ValuesOf(recordings, mac))

RECURSIVE SumSamples(_)
SumSamples(stats) ==
  IF stats = << >> THEN 0 ELSE Head(stats).samples + SumSamples(Tail(stats))

StatsComputed ==
  lastOp = "timer" /\ report.outcome \in {"saved", "read_failed", "write_failed"}

IsMeanRounded(h, sum, count) ==
  /\ 2 * count * h - count <= 200 * sum
  /\ 200 * sum < 2 * count * h + count

\* the distance the claim expects for an operator answer, in hundredths
ExpectedDistance(answer) == IF answer = "2.5" THEN 250 ELSE 0

FiveColumnHeader ==
  <<Text("Gateway MAC"), Text("Distance (m)"), Text("RSSI (dBm)"), Text("Notes"),
    Text("Timestamp")>>

ScenarioSamples == <<-60, -62, -59, -61, -60, -63, -58, -61, -60, -62>>

C11_PointRowAppended ==
  (tool = "point" /\ Wrote) =>
    LET rows == Table(store, "point")
        row == LastRow(rows)
        values == PointValues(recordings)
    IN /\ Len(values) >= 1
       /\ rows[1] = FiveColumnHeader
       /\ Len(row) = 5
       /\ row[1] = Text(ExpectedFilter(input.gatewayMac))
       /\ row[2] = Num(ExpectedDistance("2.5"))
       /\ row[3].t = "n" /\ IsMeanRounded(row[3].n, Sum(values), Len(values))
       /\ row[4] = Empty
       /\ row[5] = Text(Stamp)
       /\ Cardinality({i \in 1..Len(rows) : rows[i] = row}) = 1
       /\ values = ScenarioSamples => row[3] = Num(-6060)

\* the scenario of the claim: ten samples, mean -60.60
C11_Witness ==
  /\ tool = "point" /\ Wrote
  /\ PointValues(recordings) = ScenarioSamples
  /\ LastRow(Table(store, "point"))[3] = Num(-6060)
  /\ LastRow(Table(store, "point"))[1] = Text("AA:BB:CC:DD:EE:FF")

\* a window whose mean has more than two decimals (-182 / 3) was written
C11_RoundedWitness ==
  /\ tool = "point" /\ Wrote
  /\ PointValues(recordings) = <<-60, -61, -61>>
  /\ LastRow(Table(store, "point"))[3] = Num(-6067)

(***************************************************************************)
(* C12.  A recordMeasurement call that reaches the arming step while a     *)
(* window is already armed fails to arm: buffer and context of the window  *)
(* in flight keep their values and no second timer is started.             *)
(***************************************************************************)
\* this step is the arming step of a recordMeasurement call
ArmingStep ==
  \/ lastOp' = "other_arm"
  \/ lastOp' \in {"distance", "z"} /\ pc' = "rm_wait"

C12_ArmedWindowNotRearmed ==
  [][(isRecording /\ ArmingStep) =>
       /\ UNCHANGED <<recordings, gatewayMacs, context>>
       /\ others' = others /\ pc' = pc]_vars

(***************************************************************************)
(* C13.  A context is set exactly while a window is armed: the context     *)
(* fields of the tool are set when isRecording is true and null (cleared   *)
(* by the close of the window) when isRecording is false.                  *)
(***************************************************************************)
\* the context fields of the tool are not null
ContextSet ==
  IF tool = "point"
  THEN currentGatewayMac # << >> /\ currentDistance # << >>
  ELSE currentLocationId # << >> /\ currentCoordinates # << >>

\* the context fields of the tool are null
ContextCleared ==
  IF tool = "point"
  THEN currentGatewayMac = << >> /\ currentDistance = << >>
  ELSE currentLocationId = << >> /\ currentCoordinates = << >>

C13_ContextOnlyWhileArmed ==
  /\ isRecording => ContextSet
  /\ ~isRecording => ContextCleared

(***************************************************************************)
(* C14.  During an armed window a payload that fails to decode or lacks    *)
(* the expected shape, a list holding a null entry included, is discarded  *)
(* as a whole: the sample buffer is unchanged.  In a well-formed message   *)
(* the entries without a numeric rssi add no sample and every numeric      *)
(* entry adds one.                                                         *)
(***************************************************************************)
\* the list holds a null entry
HoldsNull(items) == \E i \in 1..Len(items) : items[i].kind = "null"

\* the payload fails to decode or lacks the expected shape
Malformed(m) == m.shape # "ok" \/ HoldsNull(m.items)

\* the rssi values of the numeric entries of a list, in order
NumericEntries(items) ==
  LET numeric == SelectSeq(items, LAMBDA item : item.kind = "number")
  IN [i \in 1..Len(numeric) |-> numeric[i].rssi]

\* the rssi values in the buffer, per tool in the buffer's order
Buffered(recs) == IF tool = "point" THEN PointValues(recs) ELSE Flatten(recs)

C14_MalformedDiscardedWhole ==
  [][\A m \in Messages :
       (isRecording /\ HandleMessage(m)) =>
         /\ Malformed(m) => recordings' = recordings
         /\ (~Malformed(m) /\ recordings = << >>) =>
              (Buffered(recordings') = << >> \/ Buffered(recordings') = NumericEntries(m.items))]_vars

(***************************************************************************)
(* C15.  Under any interleaving of message deliveries, progress ticks and  *)
(* the closing timer, the buffer at the close of a window holds exactly    *)
(* one sample for each numeric entry of each accepted message delivered    *)
(* between arming and closure.  Step by step: an accepted message appends  *)
(* its numeric entries, once and in order, to what is buffered; a message  *)
(* that is not accepted, a progress tick and the timer leave the buffer as *)
(* it is; the statistics are taken over the whole buffer; a message after  *)
(* closure adds nothing.  Accepted: well-formed in the sense of C14 and,   *)
(* in the point tool, from the filtered gateway.                           *)
(***************************************************************************)
Accepted(m) ==
  /\ ~Malformed(m)
  /\ tool = "point" => SameIgnoringCase(m.mac, currentGatewayMac[1])

\* the gateways of the model, as the buffer names them
BufferMacs == {"X1", "X2"}

\* the values buffered for a gateway
ValuesFor(recs, mac) ==
  IF tool = "point"
  THEN LET own == SelectSeq(recs, LAMBDA r : r.gatewayMac = mac)
       IN [i \in 1..Len(own) |-> own[i].rssi]
  ELSE ValuesOf(recs, mac)

\* the step appended the numeric entries of m to the values of m's gateway
Grown(m) ==
  /\ \A mac \in BufferMacs :
       ValuesFor(recordings', mac) =
         ValuesFor(recordings, mac)
         \o (IF SameIgnoringCase(m.mac, mac) THEN NumericEntries(m.items) ELSE << >>)
  /\ Len(Buffered(recordings')) = Len(Buffered(recordings)) + Len(NumericEntries(m.items))

C15_Step ==
  /\ lastOp' = "message" =>
       \A m \in Messages :
         HandleMessage(m) =>
           IF isRecording /\ Accepted(m) THEN Grown(m)
           ELSE (~isRecording \/ ~HoldsNull(m.items)) => recordings' = recordings
  /\ lastOp' \in {"progress", "timer"} => recordings' = recordings
  /\ (lastOp' = "timer" /\ report'.outcome # "no_data") =>
       SumSamples(report'.stats) = Len(Buffered(recordings))
  /\ (lastOp' = "timer" /\ report'.outcome = "no_data") => Buffered(recordings) = << >>

C15_BufferExact == [][C15_Step]_vars

\* a survey window closed on the samples of two messages, one per gateway
C15_Witness ==
  /\ tool = "survey" /\ lastOp = "timer" /\ report.outcome = "saved"
  /\ Len(recordings) = 2 /\ Len(Buffered(recordings)) = 2
  /\ SumSamples(report.stats) = 2

(***************************************************************************)
(* C16.  When writing the store fails inside writeToExcel the failure is   *)
(* reported, the row is not reported as saved, the store is as before, and *)
(* the session loop goes on to the next prompt: the process does not end.  *)
(***************************************************************************)
C16_WriteFailureKeepsSession ==
  [][(lastOp' = "timer" /\ report'.outcome = "write_failed") =>
       /\ store' = store
       /\ pc' = "run_loop"]_vars

(***************************************************************************)
(* C17.  The sheet from which writeToExcel loads the existing rows is the  *)
(* sheet into which it writes the updated table, and every other sheet of  *)
(* the workbook is left unchanged.                                         *)
(***************************************************************************)
\* the names of the sheets whose rows differ between two workbooks, the
\* sheets only one of them has included
ChangedSheets(old, new) ==
  {n \in {old[i].name : i \in 1..Len(old)} \cup {new[i].name : i \in 1..Len(new)} :
     \/ HasSheet(old, n) # HasSheet(new, n)
     \/ SheetRows(old, n) # SheetRows(new, n)}

C17_LoadedSheetIsWrittenSheet ==
  [][(WriteStep /\ Readable(store)) =>
       ChangedSheets(store.sheets, store'.sheets)
         = {FindSheetName(store.sheets, Keyword(tool))}]_vars

(***************************************************************************)
(* C18.  In every sheet the survey tool writes, whatever the prior state   *)
(* of the store (absent, unparseable, a legacy header without the          *)
(* statistics columns, or already populated), the header row starts with   *)
(* the seven fixed columns in their order, every source column comes after *)
(* them, and the appended row holds its seven context values in those      *)
(* seven positions.                                                        *)
(***************************************************************************)
\* the prior states the claim names
PriorStateNamed(st) ==
  \/ ~st.exists
  \/ ~st.parseable
  \/ /\ Readable(st)
     /\ LocatedRows(st, "survey") # << >>
     /\ Len(LocatedRows(st, "survey")[1]) >= Len(BaseCols)
     /\ SubSeq(LocatedRows(st, "survey")[1], 1, Len(BaseCols)) = BaseCols

SevenFixedColumns ==
  <<Text("Location ID"), Text("X (m)"), Text("Y (m)"), Text("Z (m)"),
    Text("Min RSSI (dBm)"), Text("Max RSSI (dBm)"), Text("Total Samples")>>

C18_SevenFixedColumnsFirst ==
  [][(tool = "survey" /\ WriteStep /\ PriorStateNamed(store)) =>
       LET rows == Table(store', "survey")
           row == LastRow(rows)
       IN /\ Len(rows[1]) >= 7 /\ SubSeq(rows[1], 1, 7) = SevenFixedColumns
          /\ \A j \in 8..Len(rows[1]) : rows[1][j] \notin {SevenFixedColumns[k] : k \in 1..7}
          /\ Len(row) >= 7
          /\ row[1] = Text(currentLocationId[1])
          /\ row[2] = Num(currentCoordinates[1].x)
          /\ row[3] = Num(currentCoordinates[1].y)
          /\ row[4] = Num(currentCoordinates[1].z)
          /\ row[5] = Num(100 * report'.overall.min)
          /\ row[6] = Num(100 * report'.overall.max)
          /\ row[7] = Num(100 * report'.overall.total)]_vars

(***************************************************************************)
(* C19.  Survey tool: the gateway of every well-formed message received    *)
(* during the window is recorded as observed, also when the message has no *)
(* numeric entry.  A window with observed gateways and no sample takes the *)
(* no-data outcome; in a window with samples every observed gateway has a  *)
(* header column, and a gateway observed without samples has an empty cell *)
(* in the new row: at its rank among the window's gateways and, when the   *)
(* header had no source column before the write, under its own column.     *)
(***************************************************************************)
\* the rank of mac among the gateways observed, in lexicographic order
RankAmong(macs, mac) == 1 + Cardinality({other \in macs : StrLess(other, mac)})

\* the position of the column named mac in a header, 0 when there is none
ColumnOf(header, mac) ==
  IF \E j \in 1..Len(header) : header[j] = Text(mac)
  THEN CHOOSE j \in 1..Len(header) : header[j] = Text(mac)
  ELSE 0

\* the header the write will find has no source column
NoSourceColumnYet(st) ==
  \/ ~st.exists
  \/ Readable(st) /\ LocatedRows(st, "survey") # << >>
       /\ LocatedRows(st, "survey")[1] = SevenFixedColumns

C19_Step ==
  /\ lastOp' = "message" =>
       \A m \in Messages :
         (tool = "survey" /\ isRecording /\ HandleMessage(m) /\ m.shape = "ok") =>
           \E mac \in BufferMacs : SameIgnoringCase(m.mac, mac) /\ mac \in gatewayMacs'
  /\ (tool = "survey" /\ lastOp' = "timer" /\ Buffered(recordings) = << >>) =>
       (report'.outcome = "no_data" /\ store' = store)
  /\ (tool = "survey" /\ WriteStep) =>
       LET rows == Table(store', "survey")
           row == LastRow(rows)
       IN \A mac \in gatewayMacs :
            /\ ColumnOf(rows[1], mac) > 0
            /\ ValuesOf(recordings, mac) = << >> =>
                 /\ CellAt(row, 7 + RankAmong(gatewayMacs, mac)) = Empty
                 /\ NoSourceColumnYet(store) => CellAt(row, ColumnOf(rows[1], mac)) = Empty

C19_ObservedWithoutSamples == [][C19_Step]_vars

\* X1 was observed without samples, X2 with one: the row written to a new
\* file is empty under X1 and has the mean of X2 under X2
C19_Witness ==
  /\ tool = "survey" /\ Wrote /\ Len(merged) = 1
  /\ gatewayMacs = {"X1", "X2"} /\ ValuesOf(recordings, "X1") = << >>
  /\ Table(store, "survey")[1] = SevenFixedColumns \o <<Text("X1"), Text("X2")>>
  /\ LastRow(Table(store, "survey"))[8] = Empty
  /\ LastRow(Table(store, "survey"))[9] # Empty

(***************************************************************************)
(* C20.  Every window that is armed eventually closes: given that the      *)
(* timer fires, isRecording true leads to isRecording false, whatever      *)
(* messages and progress ticks occur in between and without any of them;   *)
(* only the timer closes a window, and while a window is armed its timer   *)
(* is pending (the guard of TimerFires holds).                             *)
(***************************************************************************)
C20_OnlyTimerCloses ==
  (isRecording /\ ~isRecording') => (lastOp' = "timer" /\ pc = "rm_wait")

C20_ArmedWindowCloses ==
  /\ isRecording ~> ~isRecording
  /\ [][C20_OnlyTimerCloses]_vars
  /\ [](isRecording => (pc = "rm_wait" /\ others # "due"))

\* a window closed after its buffer had taken all the samples of the model
C20_Witness ==
  /\ lastOp = "timer" /\ ~isRecording
  /\ Len(Buffered(recordings)) = MaxSamples

(***************************************************************************)
(* C21.  The statistics are computed and writeToExcel is called only after *)
(* the window has closed: the store, the statistics and the merge history  *)
(* change only in the step of the timer, which leaves isRecording false;   *)
(* that step calls writeToExcel whenever the buffer holds a sample; and    *)
(* writeToExcel is called at most once per cycle, since every step of      *)
(* run() moves forward within its cycle or starts the next one, and the    *)
(* call is the one step from the armed window to the end of the cycle.     *)
(***************************************************************************)
\* writeToExcel was called (it returned, or it threw)
WriteCalled(r) == r.outcome \in {"saved", "read_failed", "write_failed"}

\* how far run() is within a cycle
StageOf(p) ==
  CASE p = "run_connect" -> 0
    [] p \in {"rm_mac", "rm_location"} -> 1
    [] p \in {"rm_distance", "rm_x"} -> 2
    [] p = "rm_y" -> 3
    [] p = "rm_z" -> 4
    [] p = "rm_wait" -> 5
    [] p = "run_loop" -> 6
    [] OTHER -> 7

\* cycles first, then the stage within the cycle
Progress(c, p) == 8 * c + StageOf(p)

ClosingStep == lastOp' = "timer" /\ pc = "rm_wait" /\ pc' # "rm_wait"

C21_Step ==
  /\ (\/ store' # store
      \/ merged' # merged
      \/ report'.stats # << >> /\ report' # report
      \/ WriteCalled(report') /\ report' # report)
     => (ClosingStep /\ ~isRecording')
  /\ lastOp' = "timer"
     => /\ ClosingStep /\ ~isRecording'
        /\ cycle' = cycle
        /\ SampleCount(tool, recordings) > 0 => WriteCalled(report')
        /\ report'.stats # << >> => WriteCalled(report')
  /\ pc' # pc => Progress(cycle', pc') > Progress(cycle, pc)
  /\ cycle' # cycle => pc' # pc

C21_ReduceAndWriteAfterClose == [][C21_Step]_vars

\* the second cycle of a session has closed with samples and written its row
C21_Witness ==
  /\ lastOp = "timer" /\ cycle = 2
  /\ ~isRecording
  /\ report.outcome = "saved"
  /\ SampleCount(tool, recordings) > 0

(***************************************************************************)
(* C22.  The persisted result of a window does not depend on arrival       *)
(* order: had the messages of the window arrived in any other order        *)
(* against the same prior store, the per-source count, mean, minimum and   *)
(* maximum would be the same, and in the survey tool the sheet written     *)
(* (header and new row) would be the same.  Every message of OrderSpec     *)
(* carries one entry, so the other arrival orders are the other orders of  *)
(* the buffer.                                                             *)
(***************************************************************************)
Bijections(n) ==
  {f \in [1..n -> 1..n] : \A i, j \in 1..n : f[i] = f[j] => i = j}

Orders(seq) ==
  {[i \in 1..Len(seq) |-> seq[f[i]]] : f \in Bijections(Len(seq))}

\* the Maps other arrival orders leave: the values of each source in any
\* order, the sources in any order of first arrival
SurveyArrivalOrders(recs) ==
  LET n == Len(recs)
      variants == UNION {{[mac |-> recs[i].mac, values |-> v] :
                            v \in Orders(recs[i].values)} : i \in 1..n}
      perSource == {e \in [1..n -> variants] :
                      \A i \in 1..n : e[i].mac = recs[i].mac}
  IN UNION {Orders(e) : e \in perSource}

StatsSet(stats) == {stats[i] : i \in 1..Len(stats)}

C22_PointOrder ==
  \A other \in Orders(recordings) :
    <<StatsOf(currentGatewayMac[1], PointValues(other))>> = report'.stats

C22_SurveyOrder ==
  \A other \in SurveyArrivalOrders(recordings) :
    /\ StatsSet(SurveyStats(other)) = StatsSet(report'.stats)
    /\ SurveyWriteToExcel(store, gatewayMacs, currentLocationId[1],
                          currentCoordinates[1], RssiReadings(other),
                          Overall(other).min, Overall(other).max,
                          Overall(other).total) = store'

C22_Step ==
  (lastOp' = "timer" /\ report'.outcome = "saved")
  => IF tool = "point" THEN C22_PointOrder ELSE C22_SurveyOrder

C22_OrderIndependent == [][C22_Step]_vars

\* the same for the windows whose sums need no rounding in any order
RECURSIVE Magnitudes(_)
Magnitudes(values) ==
  IF values = << >> THEN 0
  ELSE (IF Head(values) < 0 THEN 0 - Head(values) ELSE Head(values))
       + Magnitudes(Tail(values))

C22_ExactSumsOrderIndependent ==
  [][Magnitudes(Buffered(recordings)) < Exact => C22_Step]_vars

\* count, minimum and maximum per source, whatever the sums
Extremes(stats) ==
  {[mac |-> stats[i].mac, samples |-> stats[i].samples,
    min |-> stats[i].min, max |-> stats[i].max] : i \in 1..Len(stats)}

C22_CountMinMaxStep ==
  (lastOp' = "timer" /\ report'.outcome = "saved")
  => IF tool = "point"
     THEN \A other \in Orders(recordings) :
            Extremes(<<StatsOf(currentGatewayMac[1], PointValues(other))>>)
              = Extremes(report'.stats)
     ELSE \A other \in SurveyArrivalOrders(recordings) :
            Extremes(SurveyStats(other)) = Extremes(report'.stats)

C22_CountMinMaxOrderIndependent == [][C22_CountMinMaxStep]_vars

(***************************************************************************)
(* C23.  Over the cycles of a session the buffer, and in the survey tool   *)
(* the set of observed sources, is empty when a window is armed; until     *)
(* the window closes they change only by the messages handled while it is  *)
(* armed, each adding to its own source only; and the row written at the   *)
(* close is made of that buffer: its mean cells are means of the window's  *)
(* samples, it has one cell per source observed in the window, and the     *)
(* columns the merge adds are sources observed in the window.  So nothing  *)
(* of an earlier window, merged or closed without data, reaches a later    *)
(* row or adds a column later.                                             *)
(***************************************************************************)
WindowArms == pc # "rm_wait" /\ pc' = "rm_wait"

\* the names in the header of the table a survey write finds
HeaderNames(st) ==
  IF Table(st, "survey") = << >> THEN {}
  ELSE {Table(st, "survey")[1][j].s : j \in 1..Len(Table(st, "survey")[1])}

C23_Step ==
  /\ WindowArms => (isRecording' /\ recordings' = << >> /\ gatewayMacs' = {})
  /\ (recordings' # recordings \/ gatewayMacs' # gatewayMacs)
     => \/ WindowArms
        \/ /\ lastOp' = "message" /\ pc = "rm_wait" /\ isRecording
           /\ \E m \in Messages :
                /\ HandleMessage(m) /\ m.shape = "ok"
                /\ gatewayMacs' \subseteq gatewayMacs \cup {ToUpperCase(m.mac)}
                /\ \A mac \in BufferMacs \ {ToUpperCase(m.mac)} :
                     ValuesFor(recordings', mac) = ValuesFor(recordings, mac)
  /\ (tool = "point" /\ WriteStep) =>
       LastRow(Table(store', "point"))[3]
         = Num(Round2(Sum(PointValues(recordings)), Len(recordings)))
  /\ (tool = "survey" /\ WriteStep) =>
       LET row == LastRow(Table(store', "survey"))
       IN /\ Len(row) = Len(SurveyHeader) + Cardinality(gatewayMacs)
          /\ \A mac \in gatewayMacs :
               CellAt(row, Len(SurveyHeader) + RankAmong(gatewayMacs, mac))
                 \in {ExpectedCell(recordings, mac), Empty}
          /\ \A mac \in BufferMacs :
               (mac \in HeaderNames(store') /\ mac \notin HeaderNames(store))
                 => mac \in gatewayMacs

C23_RowFromOwnWindowOnly == [][C23_Step]_vars

\* a second window was merged after a first one that observed other sources
C23_Witness ==
  /\ tool = "survey" /\ Wrote /\ cycle = 2
  /\ Len(merged) = 2 /\ merged[1] # merged[2]
  /\ merged[2] = gatewayMacs

\* a window was merged after a window that closed without data but had
\* observed a source
C23_AfterNoDataWitness ==
  /\ tool = "survey" /\ Wrote /\ cycle = 2
  /\ Len(merged) = 1 /\ gatewayMacs = {"X2"}

(***************************************************************************)
(* C24.  In the survey tool the cell written for a source that had at      *)
(* least one sample in the window is its rounded mean and never the empty  *)
(* string, a mean of exactly 0 included; so an empty cell means the source *)
(* had no sample in the cycle.                                             *)
(***************************************************************************)
\* the cell the write put in the new row for source mac
WrittenCell(mac) ==
  CellAt(LastRow(Table(store', "survey")),
         Len(SurveyHeader) + RankAmong(gatewayMacs, mac))

RoundedMean(values) == Round2(Sum(values), Len(values))

C24_Step ==
  (tool = "survey" /\ WriteStep) =>
    \A mac \in gatewayMacs :
      /\ ValuesOf(recordings, mac) # << >> =>
           /\ WrittenCell(mac) = Num(RoundedMean(ValuesOf(recordings, mac)))
           /\ WrittenCell(mac) # Empty
      /\ WrittenCell(mac) = Empty => ValuesOf(recordings, mac) = << >>

C24_SampledSourceHasMeanCell == [][C24_Step]_vars

\* the same for the sources whose rounded mean is not 0
C24_NonZeroStep ==
  (tool = "survey" /\ WriteStep) =>
    \A mac \in gatewayMacs :
      (ValuesOf(recordings, mac) # << >> /\ RoundedMean(ValuesOf(recordings, mac)) # 0)
        => WrittenCell(mac) = Num(RoundedMean(ValuesOf(recordings, mac)))

C24_NonZeroMeanHasMeanCell == [][C24_NonZeroStep]_vars

====
